---- MODULE Spec2Model ----
(***************************************************************************)
(* Model of oa2t/app.py: transcribe_large_file, the chunked transcriber.   *)
(* One run of the function is a sequential process; each action is one     *)
(* step between two calls to a collaborator (decoder, exporter, API,       *)
(* filesystem).  Python integers are unbounded and Python floats are IEEE  *)
(* binary64; the float arithmetic of lines 36-38 is modelled bit-exactly   *)
(* on 53-bit significands held as two limbs.                               *)
(***************************************************************************)
EXTENDS Integers, Sequences, FiniteSets, TLC

\* ------------------------------------------------------------------------
\* Configuration (app.py lines 10-12)
\* ------------------------------------------------------------------------
MODEL == "gpt-4o-transcribe"

\* stands for the fixed prompt literal of line 24
PROMPT == "zh-TW prompt"

MAX_MB == 16

MaxRequestBytes == MAX_MB * 1024 * 1024

\* ------------------------------------------------------------------------
\* Bounds of the model
\* ------------------------------------------------------------------------
\* durations 0..MaxDuration (ms) are enumerated exhaustively
MaxDuration == 6

\* file sizes k * MaxRequestBytes for k in 2..MaxSizeFactor are enumerated
MaxSizeFactor == 3

\* ------------------------------------------------------------------------
\* IEEE binary64 arithmetic.  A significand m (2^52 <= m < 2^53) is the pair
\* <<hi, lo>> = hi * 2^26 + lo; a float is [m |-> significand, e |-> exp]
\* with value m * 2^e.
\* ------------------------------------------------------------------------
Limb == 67108864

\* two-limb naturals
Big == Nat \X Nat

BigOfInt(n) == <<n \div Limb, n % Limb>>

BigDbl(x, bit) ==
    LET lo2 == 2 * x[2] + bit
    IN  <<2 * x[1] + (lo2 \div Limb), lo2 % Limb>>

BigGeq(x, y) == x[1] > y[1] \/ (x[1] = y[1] /\ x[2] >= y[2])

BigSub(x, y) ==
    IF x[2] >= y[2] THEN <<x[1] - y[1], x[2] - y[2]>>
    ELSE <<x[1] - y[1] - 1, x[2] + Limb - y[2]>>

BigInc(x) ==
    IF x[2] + 1 = Limb THEN <<x[1] + 1, 0>> ELSE <<x[1], x[2] + 1>>

\* 2^52 as a significand: the smallest normalised one
BigMin == <<Limb, 0>>

\* round-to-nearest-even of significand m given "more" (remainder above
\* half) and "tie" (remainder exactly half), renormalising 2^53 to 2^52
RoundEven(m, e, more, tie) ==
    LET up == more \/ (tie /\ m[2] % 2 = 1)
        m1 == IF up THEN BigInc(m) ELSE m
    IN  IF m1 = <<2 * Limb, 0>> THEN [m |-> BigMin, e |-> e + 1]
        ELSE [m |-> m1, e |-> e]

\* long division a / b of integers: shift quotient bits in until the
\* significand is normalised (a function, so that each step is evaluated
\* before the next)
IntDivBits[m \in Big, r \in Nat, e \in Int, b \in Nat] ==
    IF BigGeq(m, BigMin) THEN [m |-> m, r |-> r, e |-> e]
    ELSE LET r2  == 2 * r
             bit == IF r2 >= b THEN 1 ELSE 0
         IN  IntDivBits[BigDbl(m, bit), r2 - bit * b, e - 1, b]

\* Python int / int (true division, correctly rounded), a > 0, b > 0
IntTrueDiv(a, b) ==
    LET d == IntDivBits[BigOfInt(a \div b), a % b, 0, b]
    IN  RoundEven(d.m, d.e, 2 * d.r > b, 2 * d.r = b)

\* long division of the integer n by the significand y
FloatDivBits[m \in Big, r \in Big, e \in Int, y \in Big] ==
    IF BigGeq(m, BigMin) THEN [m |-> m, r |-> r, e |-> e]
    ELSE LET r2  == BigDbl(r, 0)
             bit == IF BigGeq(r2, y) THEN 1 ELSE 0
         IN  FloatDivBits[BigDbl(m, bit),
                          IF bit = 1 THEN BigSub(r2, y) ELSE r2, e - 1, y]

\* Python int / float with 0 < n < 2^52 (n converts to float exactly)
IntByFloat(n, x) ==
    LET d  == FloatDivBits[<<0, 0>>, BigOfInt(n), 0, x.m]
        r2 == BigDbl(d.r, 0)
    IN  RoundEven(d.m, d.e - x.e, r2 # x.m /\ BigGeq(r2, x.m), r2 = x.m)

\* math.floor of a positive float whose floor is below 2^31
Floor(x) ==
    LET t == 0 - x.e
    IN  IF t >= 54 THEN 0
        ELSE IF t >= 26 THEN x.m[1] \div (2 ^ (t - 26))
        ELSE x.m[1] * (2 ^ (26 - t)) + (x.m[2] \div (2 ^ t))

\* lines 36-38 with the quotient rounded up instead of down
MaxChunkMsRoundedUp(fileSize, durationMs) ==
    LET bytes_per_ms    == IntTrueDiv(fileSize, durationMs)
        max_chunk_bytes == MAX_MB * 1024 * 1024
    IN  Floor(IntByFloat(max_chunk_bytes, bytes_per_ms)) + 1

\* lines 36-38: bytes_per_ms, max_chunk_bytes, max_chunk_ms
MaxChunkMs(fileSize, durationMs) ==
    LET bytes_per_ms    == IntTrueDiv(fileSize, durationMs)
        max_chunk_bytes == MAX_MB * 1024 * 1024
    IN  Floor(IntByFloat(max_chunk_bytes, bytes_per_ms))


\* ------------------------------------------------------------------------
\* Inputs of one run
\* ------------------------------------------------------------------------
FileSizes ==
    {MaxRequestBytes - 1, MaxRequestBytes, MaxRequestBytes + 1}
        \cup {k * MaxRequestBytes : k \in 2..MaxSizeFactor}

\* <<file_size, duration_ms>> pairs beyond the exhaustive small range: the
\* 40 MiB / 600 s example, a quotient the float division rounds down
\* (exact 93), one it rounds up (exact 536870912), and one-second chunks
NamedInputs ==
    { <<40 * 1024 * 1024, 600000>>,
      <<2 * MaxRequestBytes, 186>>,
      <<MaxRequestBytes + 1, 536870945>>,
      <<2 * MaxRequestBytes, 2500>> }

Inputs == (FileSizes \X (0..MaxDuration)) \cup NamedInputs

\* language: None is <<>>, a passed string s is <<s>>
Languages == { <<>>, <<"">>, <<"en">> }

\* texts the transcription collaborator may return (sequences of characters)
Texts == { <<>>, <<"a">> }

\* the input path, as a file name
Path == <<"audio.m4a">>

\* ------------------------------------------------------------------------
\* Pure helpers
\* ------------------------------------------------------------------------
Min(a, b) == IF a <= b THEN a ELSE b

DigitChars == <<"0", "1", "2", "3", "4", "5", "6", "7", "8", "9">>

\* str(n) for n >= 0, as a sequence of characters
RECURSIVE Str(_)
Str(n) ==
    IF n < 10 THEN <<DigitChars[n + 1]>>
    ELSE Str(n \div 10) \o <<DigitChars[(n % 10) + 1]>>

\* line 44: f".chunk_{start//1000}_{end//1000}.mp4"
TmpFilename(s, e) ==
    <<".chunk_">> \o Str(s \div 1000) \o <<"_">> \o Str(e \div 1000)
        \o <<".mp4">>

\* line 51 with a space as the separator
RECURSIVE JoinSpace(_)
JoinSpace(ts) ==
    IF Len(ts) = 0 THEN <<>>
    ELSE IF Len(ts) = 1 THEN ts[1]
    ELSE ts[1] \o <<" ">> \o JoinSpace(Tail(ts))

\* line 51: "\n".join(transcripts)
RECURSIVE JoinNewline(_)
JoinNewline(ts) ==
    IF Len(ts) = 0 THEN <<>>
    ELSE IF Len(ts) = 1 THEN ts[1]
    ELSE ts[1] \o <<"\n">> \o JoinNewline(Tail(ts))

\* line 26: truthiness of the optional language (None and "" are falsy)
Truthy(lang) == lang # <<>> /\ lang[1] # ""

\* lines 20-28 without the language branch of lines 26-27
CallApiParamsNoLanguage(file_handle, lang) ==
    [file |-> file_handle, model |-> MODEL, prompt |-> PROMPT]

\* lines 20-28: the keyword arguments call_api passes to the collaborator
CallApiParams(file_handle, lang) ==
    IF Truthy(lang)
    THEN [file |-> file_handle, model |-> MODEL, prompt |-> PROMPT,
          language |-> lang[1]]
    ELSE [file |-> file_handle, model |-> MODEL, prompt |-> PROMPT]

\* line 31 with a strict comparison
FitsSingleRequestStrict(fileSize) == fileSize < MAX_MB * 1024 * 1024

\* line 31: the single-request test
FitsSingleRequest(fileSize) == fileSize <= MAX_MB * 1024 * 1024

\* ------------------------------------------------------------------------
\* State
\* ------------------------------------------------------------------------
VARIABLES
    pc,            \* position in transcribe_large_file
    file_size,     \* os.path.getsize(path)
    duration_ms,   \* len(audio)
    language,      \* the language argument
    max_chunk_ms,  \* line 38
    start,         \* loop variable of line 41
    end,           \* line 42
    transcripts,   \* line 40, the list of chunk transcripts
    result,        \* <<>> until the function returns, then <<text>>
    err,           \* the exception that left the function, or "none"
    disk,          \* temporary files in the working directory: name -> audio
    calls,         \* keyword arguments of every collaborator call, in order
    responses,     \* texts the collaborator returned, in order
    trace          \* export / call / remove events, in order

vars == <<pc, file_size, duration_ms, language, max_chunk_ms, start, end,
          transcripts, result, err, disk, calls, responses, trace>>

NoFiles == [n \in {} |-> <<0, 0>>]

Init ==
    /\ pc = "entry"
    /\ \E inp \in Inputs : file_size = inp[1] /\ duration_ms = inp[2]
    /\ language \in Languages
    /\ max_chunk_ms = 0
    /\ start = 0
    /\ end = 0
    /\ transcripts = <<>>
    /\ result = <<>>
    /\ err = "none"
    /\ disk = NoFiles
    /\ calls = <<>>
    /\ responses = <<>>
    /\ trace = <<>>

Event(op, s, e, name) == [op |-> op, start |-> s, end |-> e, name |-> name]

\* the exception leaves the function: there is no try/except in lines 15-51
Raise(exc) == pc' = "raised" /\ err' = exc

\* ------------------------------------------------------------------------
\* Lines 16-18: decode the audio, read size and duration
\* ------------------------------------------------------------------------
Decode ==
    /\ pc = "entry"
    /\ pc' = "decoded"
    /\ UNCHANGED <<file_size, duration_ms, language, max_chunk_ms, start,
                   end, transcripts, result, err, disk, calls, responses,
                   trace>>

DecodeFail ==
    /\ pc = "entry"
    /\ Raise("DecodeError")
    /\ UNCHANGED <<file_size, duration_ms, language, max_chunk_ms, start,
                   end, transcripts, result, disk, calls, responses, trace>>

\* ------------------------------------------------------------------------
\* Lines 31-33: single request on the raw file
\* ------------------------------------------------------------------------
RawHandle == [name |-> Path, audio |-> <<0, duration_ms>>]

SingleRequest ==
    /\ pc = "decoded"
    /\ FitsSingleRequest(file_size)
    /\ \E text \in Texts :
          /\ responses' = Append(responses, text)
          /\ result' = <<text>>
    /\ calls' = Append(calls, CallApiParams(RawHandle, language))
    /\ trace' = Append(trace, Event("call", 0, duration_ms, Path))
    /\ pc' = "returned"
    /\ UNCHANGED <<file_size, duration_ms, language, max_chunk_ms, start,
                   end, transcripts, err, disk>>

SingleRequestFail ==
    /\ pc = "decoded"
    /\ FitsSingleRequest(file_size)
    /\ calls' = Append(calls, CallApiParams(RawHandle, language))
    /\ trace' = Append(trace, Event("call", 0, duration_ms, Path))
    /\ Raise("APIError")
    /\ UNCHANGED <<file_size, duration_ms, language, max_chunk_ms, start,
                   end, transcripts, result, disk, responses>>

\* ------------------------------------------------------------------------
\* Lines 36-41: chunk size and the range of chunk starts
\* ------------------------------------------------------------------------
\* line 36 divides by duration_ms
ChunkSizeZeroDivision ==
    /\ pc = "decoded"
    /\ ~FitsSingleRequest(file_size)
    /\ duration_ms = 0
    /\ Raise("ZeroDivisionError")
    /\ UNCHANGED <<file_size, duration_ms, language, max_chunk_ms, start,
                   end, transcripts, result, disk, calls, responses, trace>>

\* line 41: range() rejects a step of zero (transcripts is already [])
ChunkRangeValueError ==
    /\ pc = "decoded"
    /\ ~FitsSingleRequest(file_size)
    /\ duration_ms # 0
    /\ MaxChunkMs(file_size, duration_ms) = 0
    /\ max_chunk_ms' = 0
    /\ Raise("ValueError")
    /\ UNCHANGED <<file_size, duration_ms, language, start, end,
                   transcripts, result, disk, calls, responses, trace>>

ChunkSize ==
    /\ pc = "decoded"
    /\ ~FitsSingleRequest(file_size)
    /\ duration_ms # 0
    /\ MaxChunkMs(file_size, duration_ms) # 0
    /\ max_chunk_ms' = MaxChunkMs(file_size, duration_ms)
    /\ transcripts' = <<>>
    /\ start' = 0
    /\ pc' = "loop"
    /\ UNCHANGED <<file_size, duration_ms, language, end, result, err,
                   disk, calls, responses, trace>>

\* ------------------------------------------------------------------------
\* Lines 41-45: next chunk, slice and export it
\* ------------------------------------------------------------------------
ChunkEnd == Min(start + max_chunk_ms, duration_ms)

WriteFile(d, name, audio) ==
    [n \in (DOMAIN d) \cup {name} |-> IF n = name THEN audio ELSE d[n]]

DeleteFile(d, name) == [n \in (DOMAIN d) \ {name} |-> d[n]]

Export ==
    /\ pc = "loop"
    /\ start < duration_ms
    /\ end' = ChunkEnd
    /\ disk' = WriteFile(disk, TmpFilename(start, ChunkEnd),
                         <<start, ChunkEnd>>)
    /\ trace' = Append(trace, Event("export", start, ChunkEnd,
                                    TmpFilename(start, ChunkEnd)))
    /\ pc' = "exported"
    /\ UNCHANGED <<file_size, duration_ms, language, max_chunk_ms, start,
                   transcripts, result, err, calls, responses>>

\* a failed export may leave the (partial) output file behind: the exporter
\* opens the output for writing before it encodes
ExportFail ==
    /\ pc = "loop"
    /\ start < duration_ms
    /\ end' = ChunkEnd
    /\ \E left \in BOOLEAN :
          disk' = IF left
                  THEN WriteFile(disk, TmpFilename(start, ChunkEnd),
                                 <<start, ChunkEnd>>)
                  ELSE disk
    /\ trace' = Append(trace, Event("export", start, ChunkEnd,
                                    TmpFilename(start, ChunkEnd)))
    /\ Raise("ExportError")
    /\ UNCHANGED <<file_size, duration_ms, language, max_chunk_ms, start,
                   transcripts, result, calls, responses>>

\* ------------------------------------------------------------------------
\* Lines 47-48: submit the temporary file
\* ------------------------------------------------------------------------
TmpHandle ==
    [name  |-> TmpFilename(start, end),
     audio |-> disk[TmpFilename(start, end)]]

CallChunk ==
    /\ pc = "exported"
    /\ \E text \in Texts :
          /\ responses' = Append(responses, text)
          /\ transcripts' = Append(transcripts, text)
    /\ calls' = Append(calls, CallApiParams(TmpHandle, language))
    /\ trace' = Append(trace, Event("call", start, end,
                                    TmpFilename(start, end)))
    /\ pc' = "called"
    /\ UNCHANGED <<file_size, duration_ms, language, max_chunk_ms, start,
                   end, result, err, disk>>

\* lines 47-48 with the exception swallowed and the loop going on
CallChunkFailContinue ==
    /\ pc = "exported"
    /\ calls' = Append(calls, CallApiParams(TmpHandle, language))
    /\ trace' = Append(trace, Event("call", start, end,
                                    TmpFilename(start, end)))
    /\ err' = "APIError"
    /\ pc' = "called"
    /\ UNCHANGED <<file_size, duration_ms, language, max_chunk_ms, start,
                   end, transcripts, result, disk, responses>>

CallChunkFail ==
    /\ pc = "exported"
    /\ calls' = Append(calls, CallApiParams(TmpHandle, language))
    /\ trace' = Append(trace, Event("call", start, end,
                                    TmpFilename(start, end)))
    /\ Raise("APIError")
    /\ UNCHANGED <<file_size, duration_ms, language, max_chunk_ms, start,
                   end, transcripts, result, disk, responses>>

\* ------------------------------------------------------------------------
\* Line 49, then the next value of the range of line 41
\* ------------------------------------------------------------------------
\* line 49 left out: the loop goes on without deleting the file
RemoveChunkKeepsFile ==
    /\ pc = "called"
    /\ trace' = Append(trace, Event("remove", start, end,
                                    TmpFilename(start, end)))
    /\ start' = start + max_chunk_ms
    /\ pc' = "loop"
    /\ UNCHANGED <<file_size, duration_ms, language, max_chunk_ms, end,
                   transcripts, result, err, disk, calls, responses>>

RemoveChunk ==
    /\ pc = "called"
    /\ disk' = DeleteFile(disk, TmpFilename(start, end))
    /\ trace' = Append(trace, Event("remove", start, end,
                                    TmpFilename(start, end)))
    /\ start' = start + max_chunk_ms
    /\ pc' = "loop"
    /\ UNCHANGED <<file_size, duration_ms, language, max_chunk_ms, end,
                   transcripts, result, err, calls, responses>>

RemoveChunkFail ==
    /\ pc = "called"
    /\ trace' = Append(trace, Event("remove", start, end,
                                    TmpFilename(start, end)))
    /\ Raise("OSError")
    /\ UNCHANGED <<file_size, duration_ms, language, max_chunk_ms, start,
                   end, transcripts, result, disk, calls, responses>>

\* ------------------------------------------------------------------------
\* Line 51: the range is exhausted, join and return
\* ------------------------------------------------------------------------
Return ==
    /\ pc = "loop"
    /\ start >= duration_ms
    /\ result' = <<JoinNewline(transcripts)>>
    /\ pc' = "returned"
    /\ UNCHANGED <<file_size, duration_ms, language, max_chunk_ms, start,
                   end, transcripts, err, disk, calls, responses, trace>>

Next ==
    \/ Decode
    \/ DecodeFail
    \/ SingleRequest
    \/ SingleRequestFail
    \/ ChunkSizeZeroDivision
    \/ ChunkRangeValueError
    \/ ChunkSize
    \/ Export
    \/ ExportFail
    \/ CallChunk
    \/ CallChunkFail
    \/ RemoveChunk
    \/ RemoveChunkFail
    \/ Return

Spec == Init /\ [][Next]_vars

\* ------------------------------------------------------------------------
\* Vocabulary of the properties
\* ------------------------------------------------------------------------
Finished == pc \in {"returned", "raised"}

\* the run went past the size test into lines 35-51
ChunkedPath ==
    /\ file_size > MaxRequestBytes
    /\ pc \notin {"entry", "decoded"}
    /\ err # "DecodeError"

\* no export, transcription call or delete of the run has raised
CallsSucceeded == err \notin {"ExportError", "APIError", "OSError"}

EventsOf(op) == SelectSeq(trace, LAMBDA ev : ev.op = op)

\* the [start, end) intervals submitted to the collaborator, in call order
Submitted == [i \in 1..Len(calls) |-> calls[i].file.audio]

CeilDiv(a, b) == (a \div b) + (IF a % b = 0 THEN 0 ELSE 1)

\* the intervals ivs tile [0, d): contiguous, non-empty, from 0 to d
Tiles(ivs, d) ==
    IF Len(ivs) = 0 THEN d = 0
    ELSE /\ ivs[1][1] = 0
         /\ ivs[Len(ivs)][2] = d
         /\ \A i \in 1..Len(ivs) : ivs[i][1] < ivs[i][2]
         /\ \A i \in 1..(Len(ivs) - 1) : ivs[i + 1][1] = ivs[i][2]

\* p/q <= r/s for naturals with q, s > 0, by continued fractions (no
\* product is formed)
FracLeq[p \in Nat, q \in Nat, r \in Nat, s \in Nat] ==
    IF p \div q # r \div s THEN p \div q < r \div s
    ELSE IF p % q = 0 THEN TRUE
    ELSE IF r % s = 0 THEN FALSE
    ELSE FracLeq[s, r % s, q, p % q]

\* position of the first character of ts[i] in the newline join of ts
RECURSIVE Offset(_, _)
Offset(ts, i) ==
    IF i = 1 THEN 1 ELSE Offset(ts, i - 1) + Len(ts[i - 1]) + 1

\* text is the texts ts in order with one "\n" between consecutive ones
IsNewlineJoin(text, ts) ==
    IF Len(ts) = 0 THEN text = <<>>
    ELSE /\ Len(text) = Offset(ts, Len(ts)) + Len(ts[Len(ts)]) - 1
         /\ \A i \in 1..Len(ts) :
               /\ SubSeq(text, Offset(ts, i),
                         Offset(ts, i) + Len(ts[i]) - 1) = ts[i]
               /\ i < Len(ts) =>
                     text[Offset(ts, i) + Len(ts[i])] = "\n"

\* ------------------------------------------------------------------------
\* C1: a run over the size limit whose calls all succeed makes exactly
\* ceil(duration_ms / max_chunk_ms) calls, and the submitted intervals tile
\* [0, duration_ms), for every file_size and duration_ms on the chunked path.
\* ------------------------------------------------------------------------
C1_CallsTileDuration ==
    (Finished /\ ChunkedPath /\ CallsSucceeded) =>
        /\ Tiles(Submitted, duration_ms)
        /\ duration_ms = 0 => Len(calls) = 0
        /\ duration_ms > 0 =>
              /\ max_chunk_ms >= 1
              /\ Len(calls) = CeilDiv(duration_ms, max_chunk_ms)

\* ------------------------------------------------------------------------
\* C2: when the run is over, by return or by an exception, no temporary
\* chunk file of the run is left in the working directory.
\* ------------------------------------------------------------------------
C2_NoTempFilesAfterRun == Finished => DOMAIN disk = {}

\* ------------------------------------------------------------------------
\* C3: a file at or under the size limit (boundary included) is submitted
\* in exactly one call, on the raw input file, no temporary file is ever
\* created, and the call's text is returned unchanged.
\* ------------------------------------------------------------------------
C3_SingleRequestAtOrUnderLimit ==
    file_size <= MaxRequestBytes =>
        /\ Len(calls) <= 1
        /\ DOMAIN disk = {}
        /\ Len(EventsOf("export")) = 0
        /\ pc = "returned" =>
              /\ Len(calls) = 1
              /\ calls[1].file = [name |-> Path, audio |-> <<0, duration_ms>>]
              /\ responses # <<>>
              /\ result = <<responses[1]>>

C3_Witness ==
    /\ pc = "returned"
    /\ file_size = MaxRequestBytes
    /\ Len(calls) = 1
    /\ result = <<(<<"a">>)>>

\* ------------------------------------------------------------------------
\* C4: on the chunked path the returned transcript is the per-chunk
\* transcripts joined with one "\n", one transcript per chunk, in ascending
\* order of chunk start.
\* ------------------------------------------------------------------------
C4_JoinedInChunkOrder ==
    (pc = "returned" /\ ChunkedPath) =>
        /\ Len(responses) = Len(calls)
        /\ Len(calls) = Len(EventsOf("export"))
        /\ \A i \in 1..Len(calls) :
              calls[i].file.audio =
                  <<EventsOf("export")[i].start, EventsOf("export")[i].end>>
        /\ \A i \in 1..(Len(calls) - 1) :
              calls[i].file.audio[1] < calls[i + 1].file.audio[1]
        /\ result # <<>>
        /\ IsNewlineJoin(result[1], responses)

C4_Witness ==
    /\ pc = "returned"
    /\ ChunkedPath
    /\ Len(responses) >= 3
    /\ responses[1] # responses[2]

\* ------------------------------------------------------------------------
\* C5 (as amended): for 40 MiB, a 16 MiB limit and 600000 ms the chunk
\* computation yields max_chunk_ms = 240000 and exactly the 3 chunks
\* [0,240000), [240000,480000), [480000,600000).
\* ------------------------------------------------------------------------
C5_Example == file_size = 40 * 1024 * 1024 /\ duration_ms = 600000

C5_ExampleChunks ==
    C5_Example =>
        /\ ChunkedPath => max_chunk_ms = 240000
        /\ pc = "returned" =>
              Submitted = << <<0, 240000>>, <<240000, 480000>>,
                             <<480000, 600000>> >>

C5_Witness == C5_Example /\ pc = "returned" /\ Len(calls) = 3

\* C5 as stated: max_chunk_ms = 245760 and the chunks [0,245760),
\* [245760,491520), [491520,600000)
C5_AsStated ==
    C5_Example =>
        /\ ChunkedPath => max_chunk_ms = 245760
        /\ pc = "returned" =>
              Submitted = << <<0, 245760>>, <<245760, 491520>>,
                             <<491520, 600000>> >>

\* ------------------------------------------------------------------------
\* C6: a language code passed to the function is on every call of the run,
\* an omitted one on none; model and prompt are the same on every call.
\* ------------------------------------------------------------------------
C6_LanguageOnEveryCall ==
    \A i \in 1..Len(calls) :
        /\ calls[i].model = MODEL
        /\ calls[i].prompt = PROMPT
        /\ (language # <<>> /\ language[1] # "") =>
              /\ "language" \in DOMAIN calls[i]
              /\ calls[i].language = language[1]
        /\ language = <<>> => "language" \notin DOMAIN calls[i]

C6_Witness ==
    /\ language = <<"en">>
    /\ Len(calls) >= 2
    /\ pc = "returned"

\* ------------------------------------------------------------------------
\* C7: any two distinct chunks of a run get distinct temporary file names,
\* for every max_chunk_ms >= 1.
\* ------------------------------------------------------------------------
C7_DistinctTempNames ==
    max_chunk_ms >= 1 =>
        \A i, j \in 1..Len(EventsOf("export")) :
            i # j => EventsOf("export")[i].name # EventsOf("export")[j].name

\* ------------------------------------------------------------------------
\* C8: when the export or the transcription call of a chunk fails, the run
\* stops there: the failing step is the last event, no later chunk is
\* touched, the chunk is exported and submitted once, nothing is returned.
\* ------------------------------------------------------------------------
C8_FailureStopsLoop ==
    (ChunkedPath /\ err \in {"ExportError", "APIError"}) =>
        /\ pc = "raised"
        /\ result = <<>>
        /\ trace # <<>>
        /\ trace[Len(trace)].start = start
        /\ trace[Len(trace)].op = (IF err = "APIError" THEN "call"
                                   ELSE "export")
        /\ \A i \in 1..Len(trace) : trace[i].start <= start
        /\ Len(SelectSeq(trace, LAMBDA ev : ev.start = start)) =
              (IF err = "APIError" THEN 2 ELSE 1)
        /\ Len(calls) = Len(responses) + (IF err = "APIError" THEN 1 ELSE 0)

C8_Witness ==
    /\ err = "APIError"
    /\ pc = "raised"
    /\ Len(responses) >= 1
    /\ start + max_chunk_ms < duration_ms

\* ------------------------------------------------------------------------
\* C9: chunks are processed one after the other: export, call, delete of a
\* chunk in that order, the delete of a chunk before the export of the
\* next; so while no call has failed at most one temporary file exists.
\* ------------------------------------------------------------------------
C9_Sequential ==
    ChunkedPath =>
        /\ \A i \in 1..Len(trace) :
              /\ trace[i].op = "export" =>
                    \/ i = 1 /\ trace[i].start = 0
                    \/ /\ i > 1
                       /\ trace[i - 1].op = "remove"
                       /\ trace[i - 1].end = trace[i].start
              /\ trace[i].op = "call" =>
                    /\ i > 1
                    /\ trace[i - 1].op = "export"
                    /\ trace[i - 1].start = trace[i].start
              /\ trace[i].op = "remove" =>
                    /\ i > 1
                    /\ trace[i - 1].op = "call"
                    /\ trace[i - 1].start = trace[i].start
        /\ err = "none" => Cardinality(DOMAIN disk) <= 1

C9_Witness ==
    /\ pc = "exported"
    /\ Len(EventsOf("remove")) >= 1
    /\ Cardinality(DOMAIN disk) = 1
    /\ EventsOf("export")[1].name # EventsOf("export")[2].name

\* ------------------------------------------------------------------------
\* C10: under the uniform-bitrate estimate every chunk is at most
\* max_chunk_ms long and weighs at most MAX_MB MiB, and a run on the chunked
\* path produces at least two chunks.
\* ------------------------------------------------------------------------
C10_ChunkSizeBound ==
    ChunkedPath =>
        \A i \in 1..Len(EventsOf("export")) :
            LET ev == EventsOf("export")[i]
            IN  /\ ev.end - ev.start <= max_chunk_ms
                /\ FracLeq[ev.end - ev.start, duration_ms,
                           MaxRequestBytes, file_size]

C10_AtLeastTwoChunks ==
    (Finished /\ ChunkedPath /\ CallsSucceeded) =>
        Len(EventsOf("export")) >= 2

C10_ChunksFitLimit == C10_ChunkSizeBound /\ C10_AtLeastTwoChunks

====
